---- MODULE Spec2Model ----
(***************************************************************************)
(* Model of the IEEE-754 single-precision converter of streamlit_app.py.   *)
(*                                                                         *)
(* Text is a sequence of one-character strings.  A Python int is modelled  *)
(* as the sequence of its decimal digits, most significant first, without  *)
(* leading zeros (<<0>> is zero): Python ints are unbounded, the integers  *)
(* of the model checker are not, and the 32-bit patterns and the integer   *)
(* parts the converter handles exceed them.                                *)
(***************************************************************************)
EXTENDS Integers, Sequences, FiniteSets, TLC

\* input_type, input_str: the radio button and the text box (lines 197, 200)
\* given: for a Decimal input, the value the text denotes (not program state)
\* pc: "idle", then "loop", "finish" inside decimal_to_ieee_steps, then "done"
\* loc: the locals of decimal_to_ieee_steps; dec_value: line 210
\* res: the outcome of the press of Convert (bits, hx and components, or the error)
VARIABLES input_type, input_str, given, pc, loc, dec_value, res

vars == <<input_type, input_str, given, pc, loc, dec_value, res>>

(***************************************************************************)
(* Text helpers: str.strip, str.lower, str.startswith, slicing.            *)
(***************************************************************************)
Whitespace == {" ", "\t", "\n"}

UpperLetters == <<"A", "B", "C", "D", "E", "F", "G", "I", "N", "S", "T", "X", "Y">>

LowerLetters == <<"a", "b", "c", "d", "e", "f", "g", "i", "n", "s", "t", "x", "y">>

LowerChar(c) ==
    IF \E i \in 1..Len(UpperLetters) : UpperLetters[i] = c
    THEN LowerLetters[CHOOSE i \in 1..Len(UpperLetters) : UpperLetters[i] = c]
    ELSE c

\* the tuple of a function over 1..n (the function's elements are computed once)
Tup(f) == <<>> \o f

\* a value named once and used in several places of F
With(v, F(_)) == F(v)

Min(S) == CHOOSE i \in S : \A j \in S : i <= j

Max(S) == CHOOSE i \in S : \A j \in S : j <= i

Lower(s) == Tup([i \in 1..Len(s) |-> LowerChar(s[i])])

Slice(s, a, b) == Tup([i \in 1..(b - a + 1) |-> s[a + i - 1]])

Strip(s) ==
    With({i \in 1..Len(s) : s[i] \notin Whitespace}, LAMBDA keep :
        IF keep = {} THEN <<>> ELSE Slice(s, Min(keep), Max(keep)))

StartsWith(s, p) ==
    /\ Len(s) >= Len(p)
    /\ \A i \in 1..Len(p) : s[i] = p[i]

DropFirst(s, n) == Slice(s, n + 1, Len(s))

(***************************************************************************)
(* Python int arithmetic on decimal digit sequences.                       *)
(***************************************************************************)
\* s without its leading elements equal to z; <<z>> when nothing else is left
DropLeading(s, z) ==
    With({i \in 1..Len(s) : s[i] # z}, LAMBDA nz :
        IF nz = {} THEN <<z>> ELSE Slice(s, Min(nz), Len(s)))

\* a digit sequence without leading zeros
Canon(digits) == DropLeading(digits, 0)

RECURSIVE SmallDigits(_)
SmallDigits(n) == IF n < 10 THEN <<n>> ELSE Append(SmallDigits(n \div 10), n % 10)

RECURSIVE MulAddRec(_, _, _, _)
MulAddRec(n, i, k, carry) ==
    IF i = 0
    THEN IF carry = 0 THEN <<>> ELSE SmallDigits(carry)
    ELSE LET t == n[i] * k + carry
         IN  Append(MulAddRec(n, i - 1, k, t \div 10), t % 10)

\* n * k + a for a digit sequence n and small k, a
MulAdd(n, k, a) == Canon(MulAddRec(n, Len(n), k, a))

RECURSIVE Pow2(_)
Pow2(j) == IF j = 0 THEN 1 ELSE 2 * Pow2(j - 1)

\* the value of the (at most w) digits of n that end at position i
RECURSIVE WindowVal(_, _, _)
WindowVal(n, i, w) ==
    IF w = 0 \/ i < 1 THEN 0 ELSE 10 * WindowVal(n, i - 1, w - 1) + n[i]

\* divmod(n, 2^j) by long division: 10^j is a multiple of 2^j, so the remainder that
\* is carried into a digit is decided by the j digits before it
DivPow2(n, j) ==
    [q |-> Canon(Tup([i \in 1..Len(n) |->
                        ((WindowVal(n, i - 1, j) % Pow2(j)) * 10 + n[i]) \div Pow2(j)])),
     r |-> WindowVal(n, Len(n), j) % Pow2(j)]

IsZeroInt(n) == n = <<0>>

\* the base-256 digits of n, most significant first
RECURSIVE Bytes(_)
Bytes(n) ==
    With(DivPow2(n, 8), LAMBDA d :
        IF IsZeroInt(d.q) THEN <<d.r>> ELSE Append(Bytes(d.q), d.r))

HexLower == <<"0", "1", "2", "3", "4", "5", "6", "7", "8", "9", "a", "b", "c", "d", "e", "f">>

HexUpper == <<"0", "1", "2", "3", "4", "5", "6", "7", "8", "9", "A", "B", "C", "D", "E", "F">>

DigitChars == <<"0", "1", "2", "3", "4", "5", "6", "7", "8", "9">>

BinChars == <<"0", "1">>

IndexOf(tbl, c) == CHOOSE i \in 1..Len(tbl) : tbl[i] = c

InTable(tbl, c) == \E i \in 1..Len(tbl) : tbl[i] = c

Repeat(c, n) == Tup([i \in 1..n |-> c])

\* int(text, 2^w) for text over the first 2^w characters of tbl (w is 1 or 4): the
\* characters are grouped into bytes from the right, and the bytes accumulated
RECURSIVE BytesToInt(_, _)
BytesToInt(b, i) == IF i = 0 THEN <<0>> ELSE MulAdd(BytesToInt(b, i - 1), 256, b[i])

IntFromText(text, w, tbl) ==
    LET per == 8 \div w
        nb == (Len(text) + per - 1) \div per
        pad == nb * per - Len(text)
        val(i) == IF i <= pad THEN 0 ELSE IndexOf(tbl, text[i - pad]) - 1
        byte(k) == LET RECURSIVE acc(_)
                       acc(t) == IF t = 0 THEN 0
                                 ELSE acc(t - 1) * Pow2(w) + val((k - 1) * per + t)
                   IN  acc(per)
    IN  BytesToInt(Tup([k \in 1..nb |-> byte(k)]), nb)

\* the digits of n in base 2^w, most significant first ("0" for zero)
DigitsOfBytes(b, w, per, tbl) ==
    Tup([i \in 1..(Len(b) * per) |->
            tbl[((b[(i - 1) \div per + 1]
                     \div Pow2(w * (per - 1 - ((i - 1) % per)))) % Pow2(w)) + 1]])

FormatDigits(n, w, tbl) == DropLeading(DigitsOfBytes(Bytes(n), w, 8 \div w, tbl), "0")

\* format(n, "0<width>b") and format(n, "0<width>X"): zero-padded on the left to at
\* least width
ZFill(body, width) ==
    IF Len(body) >= width THEN body ELSE Repeat("0", width - Len(body)) \o body

FormatInt(n, w, tbl, width) == ZFill(FormatDigits(n, w, tbl), width)

(***************************************************************************)
(* Small integers of the program (exponents, field values) are integers of *)
(* the model; ToNat converts a digit sequence known to be small.           *)
(***************************************************************************)
RECURSIVE ToNatRec(_, _)
ToNatRec(n, i) == IF i = 0 THEN 0 ELSE 10 * ToNatRec(n, i - 1) + n[i]

ToNat(n) == ToNatRec(n, Len(n))

\* Python slicing s[a:b] (0-based, end exclusive, clipped to the length)
PySlice(s, a, b) ==
    LET hi == IF b < Len(s) THEN b ELSE Len(s)
    IN  IF a >= hi THEN <<>> ELSE Slice(s, a + 1, hi)

SINGLE_BITS == 32

HEX_DIGITS == 8

EXP_BITS == 8

MANT_BITS == 23

BIAS == 127

(***************************************************************************)
(* ieee_bits_to_float: int(bits, 2).to_bytes(4, "big"), struct.unpack(">f")*)
(* A float is [cls, sign, sig, exp2] with value (-1)^sign * sig * 2^exp2.  *)
(***************************************************************************)
\* int.to_bytes(count, "big"): ok is FALSE for the OverflowError of an int too big
ToBytes(n, count) ==
    With(Bytes(n), LAMBDA b :
        IF Len(b) > count THEN [ok |-> FALSE, bytes |-> <<>>]
        ELSE [ok |-> TRUE, bytes |-> Repeat(0, count - Len(b)) \o b])

\* struct.unpack(">f", b): the IEEE-754 binary32 value of four bytes
UnpackFloat(b) ==
    LET s == b[1] \div 128
        e == (b[1] % 128) * 2 + b[2] \div 128
        m == (b[2] % 128) * 65536 + b[3] * 256 + b[4]
    IN  IF e = 255
        THEN [cls |-> IF m = 0 THEN "inf" ELSE "nan", sign |-> s, sig |-> m, exp2 |-> 0]
        ELSE IF e = 0
        THEN [cls |-> IF m = 0 THEN "zero" ELSE "subnormal", sign |-> s, sig |-> m,
              exp2 |-> -149]
        ELSE [cls |-> "normal", sign |-> s, sig |-> 8388608 + m, exp2 |-> e - 150]

NoFloat == [cls |-> "none", sign |-> 0, sig |-> 0, exp2 |-> 0]

\* the float, or the OverflowError of to_bytes when the integer needs more than 4 bytes
ieee_bits_to_float(bits) ==
    With(ToBytes(IntFromText(bits, 1, BinChars), 4), LAMBDA packed :
        IF ~packed.ok
        THEN [exc |-> "OverflowError", val |-> NoFloat]
        ELSE [exc |-> "", val |-> UnpackFloat(packed.bytes)])

\* lines 19-33 with the exponent field cut one bit late, a variant that violates
\* C7_HexRoundTrip
ComponentsCutLate(bits) ==
    With(ToNat(IntFromText(PySlice(bits, 2, 9), 1, BinChars)), LAMBDA exp_val :
        [sign_bit |-> PySlice(bits, 0, 2), exponent_bits |-> PySlice(bits, 2, 9),
         mantissa_bits |-> PySlice(bits, 9, Len(bits)),
         exponent_biased |-> exp_val, exponent_unbiased |-> exp_val - BIAS,
         bias |-> BIAS])

bits_to_components(bits) ==
    With(ToNat(IntFromText(PySlice(bits, 1, 9), 1, BinChars)), LAMBDA exp_val :
        [sign_bit |-> PySlice(bits, 0, 1), exponent_bits |-> PySlice(bits, 1, 9),
         mantissa_bits |-> PySlice(bits, 9, Len(bits)),
         exponent_biased |-> exp_val, exponent_unbiased |-> exp_val - BIAS,
         bias |-> BIAS])

NoComps ==
    [sign_bit |-> <<>>, exponent_bits |-> <<>>, mantissa_bits |-> <<>>,
     exponent_biased |-> 0, exponent_unbiased |-> 0, bias |-> 0]

(***************************************************************************)
(* Results of one press of Convert.                                        *)
(***************************************************************************)
NoRes ==
    [kind |-> "none", exc |-> "", msg |-> "", bits |-> <<>>, hx |-> <<>>,
     float_val |-> NoFloat, comps |-> NoComps]

Raise(exc, msg) == [NoRes EXCEPT !.kind = "error", !.exc = exc, !.msg = msg]

HexPrefix == <<"0", "x">>

\* line 173 without its length test, a variant that violates C8_HexValidation
HexValidOfAnyLength(v) == \A i \in 1..Len(v) : InTable(HexLower, v[i])

HexValid(v) == Len(v) = HEX_DIGITS /\ \A i \in 1..Len(v) : InTable(HexLower, v[i])

\* lines 176-181, for the integer of a valid input
DecodeHex(as_int, bits, float_val) ==
    IF float_val.exc # ""
    THEN Raise(float_val.exc, "int too big to convert")
    ELSE [NoRes EXCEPT !.kind = "ok", !.bits = bits,
                       !.hx = HexPrefix \o FormatInt(as_int, 4, HexUpper, HEX_DIGITS),
                       !.float_val = float_val.val,
                       !.comps = bits_to_components(bits)]

\* lines 171-172
RemovePrefix(v0) == IF StartsWith(v0, HexPrefix) THEN DropFirst(v0, 2) ELSE v0

parse_hex_input(value) ==
    With(RemovePrefix(Lower(Strip(value))), LAMBDA v :
        IF ~HexValid(v)
        THEN Raise("ValueError", "Invalid HEX input")
        ELSE With(IntFromText(v, 4, HexLower), LAMBDA as_int :
                 With(FormatInt(as_int, 1, BinChars, SINGLE_BITS), LAMBDA bits :
                     DecodeHex(as_int, bits, ieee_bits_to_float(bits)))))

\* line 208: hx = f"0x{int(bits, 2):08X}"
HexOfBits(bits) ==
    HexPrefix \o FormatInt(IntFromText(bits, 1, BinChars), 4, HexUpper, HEX_DIGITS)

(***************************************************************************)
(* decimal.Decimal under getcontext().prec = 80 (line 109).  A Decimal is  *)
(* [cls, sign, coef, exp]: cls "finite", "inf" or "nan"; coef the digits   *)
(* of the coefficient without leading zeros; value (-1)^sign*coef*10^exp.  *)
(***************************************************************************)
PREC == 80

LOOP_MAX == 40

FirstIndex(s, cs) ==
    With({i \in 1..Len(s) : s[i] \in cs}, LAMBDA hit : IF hit = {} THEN 0 ELSE Min(hit))

AllDigits(s) == \A i \in 1..Len(s) : InTable(DigitChars, s[i])

DigitValues(s) == Tup([i \in 1..Len(s) |-> IndexOf(DigitChars, s[i]) - 1])

Dec(cls, sign, coef, exp) == [cls |-> cls, sign |-> sign, coef |-> coef, exp |-> exp]

NoDec == Dec("none", 0, <<0>>, 0)

\* [-+]?\d+ : the exponent after the E of a numeric string
DropSign(x) == IF Len(x) > 0 /\ x[1] \in {"+", "-"} THEN DropFirst(x, 1) ELSE x

ExpOk(x) == Len(DropSign(x)) >= 1 /\ AllDigits(DropSign(x))

ExpValue(x) ==
    (IF Len(x) > 0 /\ x[1] = "-" THEN -1 ELSE 1) * ToNat(DigitValues(DropSign(x)))

\* Decimal(value_str): the numeric-string grammar of the decimal module (surrounding
\* whitespace and underscores dropped, case ignored); cls "none" is the
\* InvalidOperation of a string that is no numeric string
IsNaNText(t) == StartsWith(t, <<"n", "a", "n">>) /\ AllDigits(DropFirst(t, 3))

\* the finite numeric string of integer digits intd, fraction digits fracd and
\* exponent text expo
DecimalOfDigits(sign, intd, fracd, hasExp, expo) ==
    IF /\ AllDigits(intd)
       /\ AllDigits(fracd)
       /\ Len(intd) + Len(fracd) >= 1
       /\ (hasExp => ExpOk(expo))
    THEN Dec("finite", sign, Canon(DigitValues(intd \o fracd)),
             (IF hasExp THEN ExpValue(expo) ELSE 0) - Len(fracd))
    ELSE NoDec

DecimalOfMantissa(sign, mant, hasExp, expo) ==
    With(FirstIndex(mant, {"."}), LAMBDA dot :
        DecimalOfDigits(sign,
                        IF dot = 0 THEN mant ELSE Slice(mant, 1, dot - 1),
                        IF dot = 0 THEN <<>> ELSE DropFirst(mant, dot),
                        hasExp, expo))

DecimalOfBody(sign, body) ==
    IF body = <<"i", "n", "f">> \/ body = <<"i", "n", "f", "i", "n", "i", "t", "y">>
    THEN Dec("inf", sign, <<0>>, 0)
    ELSE IF IsNaNText(body) \/ (StartsWith(body, <<"s">>) /\ IsNaNText(DropFirst(body, 1)))
    THEN Dec("nan", sign, <<0>>, 0)
    ELSE With(FirstIndex(body, {"e"}), LAMBDA epos :
             DecimalOfMantissa(sign,
                               IF epos = 0 THEN body ELSE Slice(body, 1, epos - 1),
                               epos # 0,
                               IF epos = 0 THEN <<>> ELSE DropFirst(body, epos)))

DecimalOfSigned(s0) ==
    DecimalOfBody(IF Len(s0) > 0 /\ s0[1] = "-" THEN 1 ELSE 0, Lower(DropSign(s0)))

DecimalOfText(value_str) ==
    DecimalOfSigned(SelectSeq(Strip(value_str), LAMBDA c : c # "_"))

DecIsZero(d) == d.coef = <<0>>

\* n + 1 on a digit sequence
Increment(n) ==
    With({i \in 1..Len(n) : n[i] # 9}, LAMBDA not9 :
        IF not9 = {} THEN <<1>> \o Repeat(0, Len(n))
        ELSE With(Max(not9), LAMBDA j :
                 Tup([i \in 1..Len(n) |->
                         IF i < j THEN n[i] ELSE IF i = j THEN n[i] + 1 ELSE 0])))

\* n - 1 on a digit sequence, n > 0
Decrement(n) ==
    With(Max({i \in 1..Len(n) : n[i] # 0}), LAMBDA j :
        Tup([i \in 1..Len(n) |-> IF i < j THEN n[i] ELSE IF i = j THEN n[i] - 1 ELSE 9]))

\* the context's rounding of a result to PREC significant digits, ROUND_HALF_EVEN
RoundUp(keep, drop) ==
    LET tailNonZero == \E i \in 2..Len(drop) : drop[i] # 0
    IN  \/ drop[1] > 5
        \/ drop[1] = 5 /\ tailNonZero
        \/ drop[1] = 5 /\ ~tailNonZero /\ keep[Len(keep)] % 2 = 1

Rounded(keep, drop) == IF RoundUp(keep, drop) THEN Increment(keep) ELSE keep

\* a carry out of the highest digit leaves PREC + 1 digits, the last of them 0
Renormalized(r, exp) ==
    IF Len(r) > PREC
    THEN [coef |-> Slice(r, 1, PREC), exp |-> exp + 1]
    ELSE [coef |-> r, exp |-> exp]

Fix(coef, exp) ==
    IF Len(coef) <= PREC THEN [coef |-> coef, exp |-> exp]
    ELSE Renormalized(Rounded(Slice(coef, 1, PREC), Slice(coef, PREC + 1, Len(coef))),
                      exp + Len(coef) - PREC)

\* 2 * n on a digit sequence: the carry into a digit depends only on the next digit
DoubleDigits(n) ==
    (IF n[1] >= 5 THEN <<1>> ELSE <<>>)
        \o Tup([i \in 1..Len(n) |->
                   (2 * n[i] + (IF i < Len(n) /\ n[i + 1] >= 5 THEN 1 ELSE 0)) % 10])

\* frac *= 2
DecDouble(f) == Fix(DoubleDigits(f.coef), f.exp)

\* frac >= 1
DecGE1(f) == ~DecIsZero(f) /\ Len(f.coef) + f.exp >= 1

\* frac -= 1, for frac >= 1
\* c * 10^e - 1 for e <= 0: the integer digits of c are decremented
SubOneAt(c, e) ==
    Fix(Canon(Decrement(Slice(c, 1, Len(c) + e)) \o Slice(c, Len(c) + e + 1, Len(c))), e)

DecSubOne(f) ==
    SubOneAt(IF f.exp > 0 THEN f.coef \o Repeat(0, f.exp) ELSE f.coef,
             IF f.exp > 0 THEN 0 ELSE f.exp)

\* int(dec // 1) for a finite dec >= 0; ok is FALSE for the DivisionImpossible of a
\* quotient of more than PREC digits
DecFloor(d) ==
    LET n == Len(d.coef) + d.exp
    IN  IF DecIsZero(d) \/ n <= 0 THEN [ok |-> TRUE, q |-> <<0>>]
        ELSE IF n > PREC THEN [ok |-> FALSE, q |-> <<0>>]
        ELSE IF d.exp >= 0 THEN [ok |-> TRUE, q |-> d.coef \o Repeat(0, d.exp)]
        ELSE [ok |-> TRUE, q |-> Slice(d.coef, 1, n)]

\* dec - int_part for int_part = int(dec // 1)
DecFracPart(d) ==
    LET n == Len(d.coef) + d.exp
    IN  IF d.exp >= 0 THEN [coef |-> <<0>>, exp |-> 0]
        ELSE IF n <= 0 THEN Fix(d.coef, d.exp)
        ELSE Fix(Canon(Slice(d.coef, n + 1, Len(d.coef))), d.exp)

\* -dec: the negation is rounded to the context, and the negation of a zero is +0
DecNeg(d) ==
    With(Fix(d.coef, d.exp), LAMBDA f :
        Dec(d.cls, IF DecIsZero(d) THEN 0 ELSE 1 - d.sign, f.coef, f.exp))

(***************************************************************************)
(* decimal_to_ieee_steps, in three parts: lines 108-125 up to the loop,    *)
(* one iteration of the loop of lines 126-133, and lines 135-155 after it. *)
(***************************************************************************)
NoFrac == [coef |-> <<0>>, exp |-> 0]

NoLoc ==
    [sign |-> 0, int_part |-> <<0>>, int_bin |-> <<>>, frac |-> NoFrac,
     frac_bits |-> <<>>, iters |-> 0, exponent_unbiased |-> 0, mantissa_raw |-> <<>>]

\* bin(n)[2:]
Bin(n) == FormatDigits(n, 1, BinChars)

\* lines 108-125: [res, loc]; res.kind is "none" when the loop is entered
\* lines 119-125, for the magnitude dec and fl = int(dec // 1)
SplitParts(sign, dec, fl) ==
    IF ~fl.ok
    THEN [res |-> Raise("InvalidOperation", "quotient too large in //"), loc |-> NoLoc]
    ELSE [res |-> NoRes,
          loc |-> [NoLoc EXCEPT !.sign = sign, !.int_part = fl.q,
                                !.int_bin = IF ~IsZeroInt(fl.q) THEN Bin(fl.q)
                                            ELSE <<"0">>,
                                !.frac = DecFracPart(dec)]]

\* lines 111-125, for the Decimal of line 110
SignAndParts(dec0) ==
    LET neg == dec0.sign = 1 /\ (dec0.cls = "inf" \/ ~DecIsZero(dec0))
    IN  IF dec0.cls = "none"
        THEN [res |-> Raise("ValueError", "Invalid decimal input"), loc |-> NoLoc]
        ELSE IF dec0.cls = "nan"
        THEN [res |-> Raise("InvalidOperation", "comparison involving NaN"), loc |-> NoLoc]
        ELSE IF dec0.cls = "inf"
        THEN [res |-> Raise("OverflowError", "cannot convert Infinity to integer"),
              loc |-> NoLoc]
        ELSE With(IF neg THEN DecNeg(dec0) ELSE dec0, LAMBDA dec :
                 SplitParts(IF neg THEN 1 ELSE 0, dec, DecFloor(dec)))

DecimalBegin(value_str) == SignAndParts(DecimalOfText(value_str))

\* lines 127-131: one iteration of the loop body
LoopBody(l) ==
    With(DecDouble(l.frac), LAMBDA doubled :
        [l EXCEPT !.frac = IF DecGE1(doubled) THEN DecSubOne(doubled) ELSE doubled,
                  !.frac_bits = Append(l.frac_bits, IF DecGE1(doubled) THEN "1" ELSE "0"),
                  !.iters = l.iters + 1])

\* the loop bound taken one iteration late, a variant that violates C9_AtMost40
LoopDoneLate(l) == DecIsZero(l.frac) \/ l.iters > LOOP_MAX

\* lines 126, 132-133: the loop is left when the fraction is 0 or range(40) is used up
LoopDone(l) == DecIsZero(l.frac) \/ l.iters >= LOOP_MAX

\* str.ljust(width, "0")
LJust(s, width) == IF Len(s) >= width THEN s ELSE s \o Repeat("0", width - Len(s))

\* line 148
ExponentInRange(exponent_biased) == 0 <= exponent_biased /\ exponent_biased <= 255

\* line 152 without its ljust, a variant that violates C6_OutputShape
MantissaNotPadded(mantissa_raw) == PySlice(mantissa_raw, 0, MANT_BITS)

\* line 152
Mantissa(mantissa_raw) == LJust(PySlice(mantissa_raw, 0, MANT_BITS), MANT_BITS)

\* lines 135-143: exponent and raw mantissa; found is FALSE when no "1" is in frac_bits
Normalize(l) ==
    IF ~IsZeroInt(l.int_part)
    THEN [found |-> TRUE, exponent_unbiased |-> Len(l.int_bin) - 1,
          mantissa_raw |-> PySlice(l.int_bin, 1, Len(l.int_bin)) \o l.frac_bits]
    ELSE With(FirstIndex(l.frac_bits, {"1"}) - 1, LAMBDA first_one :
             IF first_one = -1
             THEN [found |-> FALSE, exponent_unbiased |-> 0, mantissa_raw |-> <<>>]
             ELSE [found |-> TRUE, exponent_unbiased |-> -(first_one + 1),
                   mantissa_raw |-> PySlice(l.frac_bits, first_one + 1, Len(l.frac_bits))])

\* lines 135-155: [res, loc]
\* lines 151-155
Encode(sign, exponent_biased, mantissa_raw) ==
    With(FormatInt(SmallDigits(sign), 1, BinChars, 1)
             \o FormatInt(SmallDigits(exponent_biased), 1, BinChars, EXP_BITS)
             \o Mantissa(mantissa_raw),
         LAMBDA bits : [NoRes EXCEPT !.kind = "ok", !.bits = bits, !.hx = HexOfBits(bits)])

\* lines 141-155, for the outcome nrm of lines 135-140
CheckAndEncode(l, nrm, exponent_biased) ==
    LET l2 == [l EXCEPT !.exponent_unbiased = nrm.exponent_unbiased,
                        !.mantissa_raw = nrm.mantissa_raw]
    IN  IF ~nrm.found
        THEN [res |-> Raise("ValueError", "cannot normalize 0.0"), loc |-> l]
        ELSE IF ~ExponentInRange(exponent_biased)
        THEN [res |-> Raise("ValueError", "Value out of range"), loc |-> l2]
        ELSE [res |-> Encode(l.sign, exponent_biased, nrm.mantissa_raw), loc |-> l2]

DecimalFinish(l) ==
    With(Normalize(l), LAMBDA nrm : CheckAndEncode(l, nrm, nrm.exponent_unbiased + BIAS))

(***************************************************************************)
(* parse_binary_fraction and str() of its result.  The result is an int or *)
(* a float [isfloat, neg, num, shift] of value (-1)^neg * num / 2^shift;   *)
(* the float sum of line 104 is exact for the inputs of up to 53 bits.     *)
(***************************************************************************)
NoValue == [isfloat |-> FALSE, neg |-> FALSE, num |-> 0, shift |-> 0]

\* sum(int(b) * 2**-(i+1) for i, b in enumerate(frac_part_str)), times 2^len
RECURSIVE FracNumerator(_, _)
FracNumerator(frac_part_str, i) ==
    IF i = 0 THEN 0
    ELSE FracNumerator(frac_part_str, i - 1)
         + (IndexOf(BinChars, frac_part_str[i]) - 1) * Pow2(Len(frac_part_str) - i)

\* lines 100-105
BinaryValue(sign, int_part_str, frac_part_str) ==
    LET both == int_part_str \o frac_part_str
        int_value == IF int_part_str # <<>>
                     THEN ToNat(IntFromText(int_part_str, 1, BinChars)) ELSE 0
        n == Len(frac_part_str)
    IN  IF ~(\A i \in 1..Len(both) : InTable(BinChars, both[i]))
        THEN [exc |-> "ValueError", msg |-> "Binary input must contain only 0 and 1",
              val |-> NoValue]
        ELSE With(int_value * Pow2(n) + FracNumerator(frac_part_str, n), LAMBDA num :
                 [exc |-> "", msg |-> "",
                  val |-> [isfloat |-> n > 0,
                           neg |-> sign = -1 /\ (n > 0 \/ num # 0),
                           num |-> num, shift |-> n]])

\* lines 95-98
SplitAtDot(sign, value) ==
    IF Cardinality({i \in 1..Len(value) : value[i] = "."}) > 1
    THEN [exc |-> "ValueError", msg |-> "too many values to unpack", val |-> NoValue]
    ELSE With(FirstIndex(value, {"."}), LAMBDA dot :
             BinaryValue(sign,
                         IF dot = 0 THEN value ELSE Slice(value, 1, dot - 1),
                         IF dot = 0 THEN <<>> ELSE DropFirst(value, dot)))

parse_binary_fraction(value0) ==
    With(Strip(value0), LAMBDA value1 :
        IF value1 = <<>>
        THEN [exc |-> "ValueError", msg |-> "Binary input cannot be empty", val |-> NoValue]
        ELSE SplitAtDot(IF StartsWith(value1, <<"-">>) THEN -1 ELSE 1,
                        IF StartsWith(value1, <<"+">>) \/ StartsWith(value1, <<"-">>)
                        THEN DropFirst(value1, 1) ELSE value1))

\* 5 * n = 10 * n / 2 on a digit sequence
Mul5(n) == DivPow2(n \o <<0>>, 1).q

RECURSIVE Mul5Times(_, _)
Mul5Times(n, k) ==
    IF k = 0 \/ Len(n) = 0 THEN n
    ELSE IF k >= 8
    THEN Mul5Times(Mul5(Mul5(Mul5(Mul5(Mul5(Mul5(Mul5(Mul5(n)))))))), k - 8)
    ELSE Mul5Times(Mul5(n), k - 1)

DigitText(n) == Tup([i \in 1..Len(n) |-> DigitChars[n[i] + 1]])

\* str(v): the decimal digits of an int; for a float the shortest text that reads back
\* as the same float, which for num / 2^shift of a few digits is its exact expansion
\* in positional notation (1e-4 <= |v| < 1e16, or v = 0)
\* the fraction digits without their trailing zeros, the first digit always kept
TrimFraction(padded) ==
    With({i \in 1..Len(padded) : padded[i] # 0}, LAMBDA nz :
        Slice(padded, 1, IF nz = {} THEN 1 ELSE Max(nz)))

LeftPad(fd, width) == Repeat(0, width - Len(fd)) \o fd

\* the digits after the point of r / 2^down, for 0 <= r < 2^down
FractionText(r, down) ==
    DigitText(TrimFraction(LeftPad(Mul5Times(SmallDigits(r), down), down)))

PyStr(v) ==
    (IF v.neg THEN <<"-">> ELSE <<>>)
        \o (IF ~v.isfloat THEN DigitText(SmallDigits(v.num))
            ELSE DigitText(SmallDigits(v.num \div Pow2(v.shift)))
                     \o <<".">> \o FractionText(v.num % Pow2(v.shift), v.shift))

(***************************************************************************)
(* The inputs.  A Decimal input is given either as a text, with the value  *)
(* it denotes described beside it (cls "zero", "nonzero" or "other"; exp   *)
(* the floor of the base-2 logarithm of its magnitude; mant the first 23   *)
(* bits after the leading one of its exact binary expansion), or as the    *)
(* exact decimal expansion of the value of a 32-bit pattern.               *)
(***************************************************************************)
MaxDown == 44

MaxUp == 4

MaxPad == 1

MaxBinLen == 4

DecimalTexts ==
    { [text |-> <<"0">>, cls |-> "zero", exp |-> 0, mant |-> <<>>],
      [text |-> <<"0", ".", "0">>, cls |-> "zero", exp |-> 0, mant |-> <<>>],
      [text |-> <<"-", "0">>, cls |-> "zero", exp |-> 0, mant |-> <<>>],
      [text |-> <<"0", "e", "5">>, cls |-> "zero", exp |-> 0, mant |-> <<>>],
      [text |-> <<"1", ".", "0">>, cls |-> "nonzero", exp |-> 0, mant |-> <<"0", "0", "0", "0", "0", "0", "0", "0", "0", "0", "0", "0", "0", "0", "0", "0", "0", "0", "0", "0", "0", "0", "0">>],
      [text |-> <<"1", ".">>, cls |-> "nonzero", exp |-> 0, mant |-> <<"0", "0", "0", "0", "0", "0", "0", "0", "0", "0", "0", "0", "0", "0", "0", "0", "0", "0", "0", "0", "0", "0", "0">>],
      [text |-> <<"+", ".", "5">>, cls |-> "nonzero", exp |-> -1, mant |-> <<"0", "0", "0", "0", "0", "0", "0", "0", "0", "0", "0", "0", "0", "0", "0", "0", "0", "0", "0", "0", "0", "0", "0">>],
      [text |-> <<"-", "2", ".", "5">>, cls |-> "nonzero", exp |-> 1, mant |-> <<"0", "1", "0", "0", "0", "0", "0", "0", "0", "0", "0", "0", "0", "0", "0", "0", "0", "0", "0", "0", "0", "0", "0">>],
      [text |-> <<"3", ".", "1", "4", "1", "5", "9", "2", "6">>, cls |-> "nonzero", exp |-> 1, mant |-> <<"1", "0", "0", "1", "0", "0", "1", "0", "0", "0", "0", "1", "1", "1", "1", "1", "1", "0", "1", "1", "0", "1", "0">>],
      [text |-> <<"0", ".", "1">>, cls |-> "nonzero", exp |-> -4, mant |-> <<"1", "0", "0", "1", "1", "0", "0", "1", "1", "0", "0", "1", "1", "0", "0", "1", "1", "0", "0", "1", "1", "0", "0">>],
      [text |-> <<"0", ".", "0", "0", "0", "0", "0", "1">>, cls |-> "nonzero", exp |-> -20, mant |-> <<"0", "0", "0", "0", "1", "1", "0", "0", "0", "1", "1", "0", "1", "1", "1", "1", "0", "1", "1", "1", "1", "0", "1">>],
      [text |-> <<"1", "e", "5">>, cls |-> "nonzero", exp |-> 16, mant |-> <<"1", "0", "0", "0", "0", "1", "1", "0", "1", "0", "1", "0", "0", "0", "0", "0", "0", "0", "0", "0", "0", "0", "0">>],
      [text |-> <<"1", "E", "5">>, cls |-> "nonzero", exp |-> 16, mant |-> <<"1", "0", "0", "0", "0", "1", "1", "0", "1", "0", "1", "0", "0", "0", "0", "0", "0", "0", "0", "0", "0", "0", "0">>],
      [text |-> <<" ", "1", " ">>, cls |-> "nonzero", exp |-> 0, mant |-> <<"0", "0", "0", "0", "0", "0", "0", "0", "0", "0", "0", "0", "0", "0", "0", "0", "0", "0", "0", "0", "0", "0", "0">>],
      [text |-> <<"1", "_", "0">>, cls |-> "nonzero", exp |-> 3, mant |-> <<"0", "1", "0", "0", "0", "0", "0", "0", "0", "0", "0", "0", "0", "0", "0", "0", "0", "0", "0", "0", "0", "0", "0">>],
      [text |-> <<"1", "e", "3", "9">>, cls |-> "nonzero", exp |-> 129, mant |-> <<"0", "1", "1", "1", "1", "0", "0", "0", "0", "0", "1", "0", "1", "0", "0", "0", "0", "1", "1", "1", "1", "1", "1">>],
      [text |-> <<"1", "e", "7", "9">>, cls |-> "nonzero", exp |-> 262, mant |-> <<"0", "1", "0", "1", "1", "0", "0", "1", "0", "1", "1", "1", "0", "0", "1", "0", "0", "1", "0", "1", "1", "1", "0">>],
      [text |-> <<"1", "e", "8", "0">>, cls |-> "nonzero", exp |-> 265, mant |-> <<"1", "0", "1", "0", "1", "1", "1", "1", "1", "1", "0", "0", "1", "1", "1", "0", "1", "1", "1", "1", "0", "1", "0">>],
      [text |-> <<"1", "e", "-", "1", "3">>, cls |-> "nonzero", exp |-> -44, mant |-> <<"1", "1", "0", "0", "0", "0", "1", "0", "0", "1", "0", "1", "1", "1", "0", "0", "0", "0", "1", "0", "0", "1", "1">>],
      [text |-> <<"1", "e", "-", "3", "9">>, cls |-> "nonzero", exp |-> -130, mant |-> <<"0", "1", "0", "1", "1", "1", "0", "0", "0", "1", "1", "1", "0", "0", "1", "0", "1", "1", "1", "1", "1", "0", "1">>],
      [text |-> <<"1", "e", "-", "4", "0">>, cls |-> "nonzero", exp |-> -133, mant |-> <<"0", "0", "0", "1", "0", "1", "1", "0", "1", "1", "0", "0", "0", "0", "1", "0", "0", "1", "1", "0", "0", "0", "1">>],
      [text |-> <<"3", "4", "0", "2", "8", "2", "3", "6", "6", "9", "2", "0", "9", "3", "8", "4", "6", "3", "4", "6", "3", "3", "7", "4", "6", "0", "7", "4", "3", "1", "7", "6", "8", "2", "1", "1", "4", "5", "6">>, cls |-> "nonzero", exp |-> 128, mant |-> <<"0", "0", "0", "0", "0", "0", "0", "0", "0", "0", "0", "0", "0", "0", "0", "0", "0", "0", "0", "0", "0", "0", "0">>],
      [text |-> <<"6", "8", "0", "5", "6", "4", "7", "3", "3", "8", "4", "1", "8", "7", "6", "9", "2", "6", "9", "2", "6", "7", "4", "9", "2", "1", "4", "8", "6", "3", "5", "3", "6", "4", "2", "2", "9", "1", "2">>, cls |-> "nonzero", exp |-> 129, mant |-> <<"0", "0", "0", "0", "0", "0", "0", "0", "0", "0", "0", "0", "0", "0", "0", "0", "0", "0", "0", "0", "0", "0", "0">>],
      [text |-> <<"3", "4", "0", "2", "8", "2", "3", "6", "6", "9", "2", "0", "9", "3", "8", "4", "6", "3", "4", "6", "3", "3", "7", "4", "6", "0", "7", "4", "3", "1", "7", "6", "8", "2", "1", "1", "4", "5", "5">>, cls |-> "nonzero", exp |-> 127, mant |-> <<"1", "1", "1", "1", "1", "1", "1", "1", "1", "1", "1", "1", "1", "1", "1", "1", "1", "1", "1", "1", "1", "1", "1">>],
      [text |-> <<"N", "a", "N">>, cls |-> "other", exp |-> 0, mant |-> <<>>],
      [text |-> <<"I", "n", "f", "i", "n", "i", "t", "y">>, cls |-> "other", exp |-> 0, mant |-> <<>>],
      [text |-> <<"-", "i", "n", "f">>, cls |-> "other", exp |-> 0, mant |-> <<>>],
      [text |-> <<>>, cls |-> "other", exp |-> 0, mant |-> <<>>],
      [text |-> <<".">>, cls |-> "other", exp |-> 0, mant |-> <<>>],
      [text |-> <<"1", ".", "2", ".", "3">>, cls |-> "other", exp |-> 0, mant |-> <<>>],
      [text |-> <<"a", "b", "c">>, cls |-> "other", exp |-> 0, mant |-> <<>>],
      [text |-> <<"-", "-", "1">>, cls |-> "other", exp |-> 0, mant |-> <<>>],
      [text |-> <<"+">>, cls |-> "other", exp |-> 0, mant |-> <<>>],
      [text |-> <<"1", "e">>, cls |-> "other", exp |-> 0, mant |-> <<>>],
      [text |-> <<"1", ",", "5">>, cls |-> "other", exp |-> 0, mant |-> <<>>] }

RECURSIVE DoubleTimes(_, _)
DoubleTimes(n, k) ==
    IF k = 0 \/ Len(n) = 0 THEN n
    ELSE IF k >= 8
    THEN DoubleTimes(MulAdd(n, 256, 0), k - 8)
    ELSE DoubleTimes(DoubleDigits(n), k - 1)

\* the value of a float written out exactly in positional decimal notation
FloatText(f) ==
    LET minus == IF f.sign = 1 THEN <<"-">> ELSE <<>>
        down == -f.exp2
        ip == IF down >= 24 THEN 0 ELSE f.sig \div Pow2(down)
        r == IF down >= 24 THEN f.sig ELSE f.sig % Pow2(down)
    IN  IF f.cls = "inf" THEN minus \o <<"i", "n", "f">>
        ELSE IF f.cls = "nan" THEN <<"n", "a", "n">>
        ELSE IF f.sig = 0 THEN minus \o <<"0", ".", "0">>
        ELSE IF f.exp2 >= 0 THEN minus \o DigitText(DoubleTimes(SmallDigits(f.sig), f.exp2))
        ELSE IF r = 0 THEN minus \o DigitText(SmallDigits(ip))
        ELSE minus \o DigitText(SmallDigits(ip)) \o <<".">> \o FractionText(r, down)

RECURSIVE BitLen(_)
BitLen(n) == IF n = 0 THEN 0 ELSE 1 + BitLen(n \div 2)

ExpFields == {0, 1, 254, 255} \cup ((BIAS - MaxDown)..(BIAS + MaxUp))

MantFields == {0, 1, 4194304, 4788186, 8388607}

PatternOf(sign, field, m) ==
    FormatInt(SmallDigits(sign), 1, BinChars, 1)
        \o FormatInt(SmallDigits(field), 1, BinChars, EXP_BITS)
        \o FormatInt(SmallDigits(m), 1, BinChars, MANT_BITS)

GivenOfPattern(sign, field, m) ==
    With(PatternOf(sign, field, m), LAMBDA bits :
        [text |-> FloatText(ieee_bits_to_float(bits).val),
         cls |-> IF field = 255 THEN "other"
                 ELSE IF field = 0 /\ m = 0 THEN "zero" ELSE "nonzero",
         exp |-> IF field = 255 \/ (field = 0 /\ m = 0) THEN 0
                 ELSE IF field = 0 THEN BitLen(m) - 150 ELSE field - BIAS,
         mant |-> IF field = 255 \/ (field = 0 /\ m = 0) THEN <<>>
                  ELSE IF field = 0
                  THEN LJust(PySlice(FormatDigits(SmallDigits(m), 1, BinChars), 1, BitLen(m)),
                             MANT_BITS)
                  ELSE PySlice(bits, 9, SINGLE_BITS),
         bits |-> bits])

DecimalGivens ==
    {[text |-> t.text, cls |-> t.cls, exp |-> t.exp, mant |-> t.mant, bits |-> <<>>] :
        t \in DecimalTexts}
    \cup {GivenOfPattern(sign, field, m) : sign \in {0, 1}, field \in ExpFields,
                                            m \in MantFields}

NoGiven == [text |-> <<>>, cls |-> "other", exp |-> 0, mant |-> <<>>, bits |-> <<>>]

HexChars == {HexLower[i] : i \in 1..16} \cup {HexUpper[i] : i \in 1..16} \cup {"g", "x", "-"}

HexFill == {"0", "f", "E", "g"}

HexBodies ==
    {Repeat(a, k) \o Repeat(b, n - k) :
        a \in HexChars, b \in HexFill, k \in {0, 1, 5, 7}, n \in (HEX_DIGITS - 1)..(HEX_DIGITS + 1)}
    \cup {<<"4", "0", "4", "9", "0", "F", "D", "A">>, <<"4", "0", "4", "9", "0", "f", "d", "a">>,
          <<"3", "F", "8", "0", "0", "0", "0", "0">>, <<"8", "0", "0", "0", "0", "0", "0", "1">>,
          <<"0", "1", "2", "3", "4", "5", "6", "7">>, <<"8", "9", "a", "b", "c", "d", "e", "f">>,
          <<"8", "9", "A", "B", "C", "D", "E", "F">>, <<"0", "x", "1", "2", "3", "4", "5", "6">>,
          <<>>}

HexPrefixes == {<<>>, <<"0", "x">>, <<"0", "X">>, <<"0", "x", "0", "x">>, <<"x">>}

HexInputs ==
    {Repeat(" ", p) \o pre \o body \o Repeat(" ", p) :
        p \in 0..MaxPad, pre \in HexPrefixes, body \in HexBodies}

BinAlphabet == {"0", "1", ".", "-", "+", "2"}

BinaryInputs ==
    UNION {[1..n -> BinAlphabet] : n \in 0..MaxBinLen}
    \cup {<<" ">>, <<" ", "1", "0", "1", " ">>, <<"1", "0", "1", ".", "0", "1", "1">>,
          <<"-", "1", "0", "1", ".", "0", "1", "1">>}

(***************************************************************************)
(* The page: the radio button, the text box and the Convert button of      *)
(* lines 195-221.  A press of Convert runs to the end (pc "done") before   *)
(* the next one.                                                           *)
(***************************************************************************)
Init ==
    /\ input_type = "Decimal"
    /\ input_str = <<"3", ".", "1", "4", "1", "5", "9", "2", "6">>
    /\ given = NoGiven
    /\ pc = "idle"
    /\ loc = NoLoc
    /\ dec_value = NoValue
    /\ res = NoRes

\* line 205: decimal_to_ieee_steps(input_str), up to the loop
\* the page after lines 108-125 of decimal_to_ieee_steps gave b: in the loop, or done
\* with the error of these lines
Started(type, text, g, v, b) ==
    /\ input_type' = type
    /\ input_str' = text
    /\ given' = g
    /\ dec_value' = v
    /\ res' = b.res
    /\ loc' = b.loc
    /\ pc' = IF b.res.kind = "none" THEN "loop" ELSE "done"

ConvertDecimal(g) ==
    /\ pc = "idle"
    /\ Started("Decimal", g.text, g, NoValue, DecimalBegin(g.text))

\* lines 207-208
Decoded(text, r) ==
    /\ input_type' = "Hexadecimal"
    /\ input_str' = text
    /\ given' = NoGiven
    /\ res' = IF r.kind = "ok" THEN [r EXCEPT !.hx = HexOfBits(r.bits)] ELSE r
    /\ loc' = NoLoc
    /\ pc' = "done"
    /\ dec_value' = NoValue

ConvertHex(text) ==
    /\ pc = "idle"
    /\ Decoded(text, parse_hex_input(text))

\* lines 210-211: parse_binary_fraction, then decimal_to_ieee_steps(str(dec_value))
Parsed(text, v) ==
    Started("Binary", text, NoGiven, v.val,
            IF v.exc # "" THEN [res |-> Raise(v.exc, v.msg), loc |-> NoLoc]
            ELSE DecimalBegin(PyStr(v.val)))

ConvertBinary(text) ==
    /\ pc = "idle"
    /\ Parsed(text, parse_binary_fraction(text))

\* lines 126-133: one iteration of the fractional expansion
LoopStep ==
    /\ pc = "loop"
    /\ loc' = LoopBody(loc)
    /\ pc' = IF LoopDone(loc') THEN "finish" ELSE "loop"
    /\ UNCHANGED <<input_type, input_str, given, dec_value, res>>

\* lines 135-167
Finished(f) ==
    /\ res' = f.res
    /\ loc' = f.loc
    /\ pc' = "done"
    /\ UNCHANGED <<input_type, input_str, given, dec_value>>

Finish ==
    /\ pc = "finish"
    /\ Finished(DecimalFinish(loc))

\* the result is shown (lines 214-221) and the page waits for the next press, which
\* replaces every variable: the page is modelled as returning to its first state
Shown ==
    /\ pc = "done"
    /\ input_type' = "Decimal"
    /\ input_str' = <<"3", ".", "1", "4", "1", "5", "9", "2", "6">>
    /\ given' = NoGiven
    /\ pc' = "idle"
    /\ loc' = NoLoc
    /\ dec_value' = NoValue
    /\ res' = NoRes

Next ==
    \/ \E g \in DecimalGivens : ConvertDecimal(g)
    \/ \E text \in HexInputs : ConvertHex(text)
    \/ \E text \in BinaryInputs : ConvertBinary(text)
    \/ LoopStep
    \/ Finish
    \/ Shown

Spec == Init /\ [][Next]_vars

(***************************************************************************)
(* Vocabulary of the properties.                                           *)
(***************************************************************************)
InvalidFormat == res = Raise("ValueError", "Invalid decimal input")

CannotNormalizeZero == res.kind = "error" /\ res.msg = "cannot normalize 0.0"

ExponentOutOfRange == res.kind = "error" /\ res.msg = "Value out of range"

InvalidHex == res = Raise("ValueError", "Invalid HEX input")

BinaryParseFailed ==
    /\ res.kind = "error"
    /\ res.exc = "ValueError"
    /\ res.msg \in {"Binary input cannot be empty", "too many values to unpack",
                    "Binary input must contain only 0 and 1"}

\* the unsigned value of a short bit string, by positional weights
RECURSIVE BitsValue(_, _)
BitsValue(b, i) ==
    IF i = 0 THEN 0 ELSE 2 * BitsValue(b, i - 1) + (IF b[i] = "1" THEN 1 ELSE 0)

Unsigned(b) == BitsValue(b, Len(b))

IsBitString(b) == \A i \in 1..Len(b) : b[i] \in {"0", "1"}

WithoutSign(s) == IF Len(s) > 0 /\ s[1] \in {"+", "-"} THEN DropFirst(s, 1) ELSE s

\* an optional sign, digits and at most one dot, with at least one digit
PlainDecimal(s) ==
    LET t == WithoutSign(s)
    IN  /\ \A i \in 1..Len(t) : InTable(DigitChars, t[i]) \/ t[i] = "."
        /\ Cardinality({i \in 1..Len(t) : t[i] = "."}) <= 1
        /\ \E i \in 1..Len(t) : InTable(DigitChars, t[i])

\* [+|-]<binary-int>[.<binary-frac>]
BinaryForm(s) ==
    LET t == WithoutSign(Strip(s))
    IN  /\ \A i \in 1..Len(t) : t[i] \in {"0", "1", "."}
        /\ Cardinality({i \in 1..Len(t) : t[i] = "."}) <= 1

\* 8 hexadecimal digits of either case, after an optional 0x or 0X, inside optional
\* whitespace
ValidHexText(s) ==
    LET t == Strip(s)
        d == IF Len(t) > HEX_DIGITS THEN DropFirst(t, 2) ELSE t
    IN  /\ Len(t) \in {HEX_DIGITS, HEX_DIGITS + 2}
        /\ Len(t) > HEX_DIGITS => t[1] = "0" /\ t[2] \in {"x", "X"}
        /\ \A i \in 1..Len(d) : InTable(HexLower, d[i]) \/ InTable(HexUpper, d[i])

\* the 8 digits of a valid hex text, in upper case
UpperDigits(s) ==
    LET t == Strip(s)
        d == DropFirst(t, Len(t) - HEX_DIGITS)
    IN  Tup([i \in 1..Len(d) |->
                IF InTable(HexLower, d[i]) THEN HexUpper[IndexOf(HexLower, d[i])] ELSE d[i]])

(***************************************************************************)
(* C1: for every 32-bit pattern B, converting the decimal value of B       *)
(* succeeds and gives back the sign bit, the exponent field and the        *)
(* mantissa of B.                                                          *)
(***************************************************************************)
C1_RoundTrip ==
    (pc = "done" /\ input_type = "Decimal" /\ given.bits # <<>>)
        => /\ res.kind = "ok"
           /\ PySlice(res.bits, 0, 9) = PySlice(given.bits, 0, 9)
           /\ PySlice(res.bits, 9, 32) = PySlice(given.bits, 9, 32)

(***************************************************************************)
(* C2: every decimal input whose magnitude needs an unbiased exponent      *)
(* above 127 or below -126 fails with the out-of-range error.              *)
(***************************************************************************)
C2_OutOfRange ==
    (/\ pc = "done"
     /\ input_type = "Decimal"
     /\ given.cls = "nonzero"
     /\ (given.exp > 127 \/ given.exp < -126))
        => ExponentOutOfRange

(***************************************************************************)
(* C3: the cannot-normalize-zero error is raised for the inputs whose      *)
(* value is exactly zero, and for no input of nonzero value.               *)
(***************************************************************************)
C3_ZeroOnly ==
    (pc = "done" /\ input_type = "Decimal")
        => /\ given.cls = "zero" => CannotNormalizeZero
           /\ given.cls = "nonzero" => ~CannotNormalizeZero

(***************************************************************************)
(* C4: every input that is not an optional sign, digits and at most one    *)
(* dot fails with the invalid-decimal ValueError: it is not converted and  *)
(* no other error escapes.                                                 *)
(***************************************************************************)
C4_InvalidFormat ==
    (input_type = "Decimal" /\ pc # "idle" /\ ~PlainDecimal(Strip(input_str)))
        => pc = "done" /\ InvalidFormat

(***************************************************************************)
(* C5: parse_binary_fraction fails for every input that is empty after its *)
(* sign and for every input with a character other than 0, 1 and the dot;  *)
(* it returns a value only for [+|-]<binary-int>[.<binary-frac>], and the  *)
(* value is sign * (integer part in base 2 + fraction bits weighted 2^-i). *)
(***************************************************************************)
C5_BinaryFraction ==
    (input_type = "Binary" /\ pc # "idle")
        => LET t == WithoutSign(Strip(input_str))
               dot == FirstIndex(t, {"."})
               ip == IF dot = 0 THEN t ELSE Slice(t, 1, dot - 1)
               fp == IF dot = 0 THEN <<>> ELSE DropFirst(t, dot)
           IN  /\ t = <<>> => BinaryParseFailed
               /\ ~BinaryForm(input_str) => BinaryParseFailed
               /\ ~BinaryParseFailed
                    => /\ BinaryForm(input_str)
                       /\ dec_value.shift = Len(fp)
                       /\ dec_value.num = Unsigned(ip) * Pow2(Len(fp)) + Unsigned(fp)
                       /\ dec_value.neg => Strip(input_str)[1] = "-"

(***************************************************************************)
(* C6: a successful decimal_to_ieee_steps returns 32 characters, each 0 or *)
(* 1, and "0x" followed by 8 upper-case hexadecimal digits of the same     *)
(* integer value as the bit string.                                        *)
(***************************************************************************)
C6_OutputShape ==
    (pc = "done" /\ input_type \in {"Decimal", "Binary"} /\ res.kind = "ok")
        => /\ Len(res.bits) = 32
           /\ IsBitString(res.bits)
           /\ Len(res.hx) = 10
           /\ res.hx[1] = "0" /\ res.hx[2] = "x"
           /\ \A k \in 1..8 :
                /\ InTable(HexUpper, res.hx[k + 2])
                /\ IndexOf(HexUpper, res.hx[k + 2]) - 1
                     = Unsigned(Slice(res.bits, 4 * k - 3, 4 * k))

C6_Witness ==
    /\ pc = "done"
    /\ input_type = "Decimal"
    /\ input_str = <<"3", ".", "1", "4", "1", "5", "9", "2", "6">>
    /\ res.kind = "ok"
    /\ res.hx = <<"0", "x", "4", "0", "4", "9", "0", "F", "D", "A">>

(***************************************************************************)
(* C7: a valid hex input decodes to components whose re-encoding is "0x"   *)
(* and the same 8 digits in upper case; decoding that again gives the same *)
(* bits and the same hex; exponent_biased is the unsigned value of the 8   *)
(* exponent bits and exponent_unbiased is exponent_biased - 127.           *)
(***************************************************************************)
C7_HexRoundTrip ==
    (pc = "done" /\ input_type = "Hexadecimal" /\ ValidHexText(input_str))
        => /\ res.kind = "ok"
           /\ LET c == res.comps
                  again == HexOfBits(c.sign_bit \o c.exponent_bits \o c.mantissa_bits)
                  second == parse_hex_input(again)
              IN  /\ again = <<"0", "x">> \o UpperDigits(input_str)
                  /\ res.hx = again
                  /\ second.kind = "ok"
                  /\ second.bits = res.bits
                  /\ HexOfBits(second.bits) = again
                  /\ Len(c.sign_bit) = 1 /\ Len(c.exponent_bits) = 8
                  /\ Len(c.mantissa_bits) = 23
                  /\ c.exponent_biased = Unsigned(Slice(res.bits, 2, 9))
                  /\ c.exponent_unbiased = c.exponent_biased - 127

C7_Witness ==
    /\ pc = "done"
    /\ input_type = "Hexadecimal"
    /\ input_str = <<"0", "x", "4", "0", "4", "9", "0", "f", "d", "a">>
    /\ res.hx = <<"0", "x", "4", "0", "4", "9", "0", "F", "D", "A">>
    /\ res.comps.exponent_biased = 128
    /\ res.comps.exponent_unbiased = 1

(***************************************************************************)
(* C8: parse_hex_input accepts exactly the inputs that are, once trimmed,  *)
(* case-folded and rid of one optional 0x, 8 characters of [0-9a-f]; every *)
(* other input fails with the invalid-hex ValueError before any bit string *)
(* or component is produced, and every accepted input is decoded.          *)
(***************************************************************************)
C8_HexValidation ==
    (pc = "done" /\ input_type = "Hexadecimal")
        => /\ ValidHexText(input_str) <=> res.kind = "ok"
           /\ ~ValidHexText(input_str) => InvalidHex
           /\ res.kind = "ok" => /\ Len(res.bits) = 32
                                 /\ res.float_val.cls # "none"
                                 /\ res.comps # NoComps

C8_Witness ==
    /\ pc = "done"
    /\ input_type = "Hexadecimal"
    /\ input_str = <<"0", "x", "1", "2", "3", "4", "5", "6">>
    /\ InvalidHex

(***************************************************************************)
(* C9, as stated: the fractional expansion stops as soon as the fraction   *)
(* is 0 and otherwise after at most 33 iterations, so at most 33 bits are  *)
(* emitted.                                                                *)
(***************************************************************************)
C9_AtMost33 == loc.iters <= 33 /\ Len(loc.frac_bits) <= 33

(***************************************************************************)
(* C9, amended: the fractional expansion always terminates: each of its    *)
(* iterations adds one to a count that never passes 40; it stops as soon   *)
(* as the fraction is 0 and otherwise after 40 iterations, so at most 40   *)
(* bits are emitted.                                                       *)
(***************************************************************************)
C9_LoopShape ==
    /\ loc.iters = Len(loc.frac_bits)
    /\ loc.iters <= 40
    /\ pc = "loop" => loc.iters < 40 /\ (loc.iters > 0 => ~DecIsZero(loc.frac))
    /\ pc = "finish" => loc.iters >= 1 /\ (DecIsZero(loc.frac) \/ loc.iters = 40)

\* every iteration adds one to the count that C9_LoopShape bounds
C9_LoopProgress == pc = "loop" => pc' \in {"loop", "finish"} /\ loc'.iters = loc.iters + 1

C9_AtMost40 == [](C9_LoopShape) /\ [][C9_LoopProgress]_vars

C9_Witness ==
    /\ pc = "finish"
    /\ input_str = <<"0", ".", "1">>
    /\ loc.iters = 40
    /\ ~DecIsZero(loc.frac)

(***************************************************************************)
(* C10: for every nonzero input that is encoded, the mantissa field is the *)
(* first 23 bits after the leading one of the exact binary expansion of    *)
(* the magnitude.                                                          *)
(***************************************************************************)
C10_Truncation ==
    (pc = "done" /\ input_type = "Decimal" /\ given.cls = "nonzero" /\ res.kind = "ok")
        => PySlice(res.bits, 9, 32) = given.mant

====
